---- MODULE Spec2Model ----
(***************************************************************************)
(* Image_Quality_Analyzer: the Streamlit script src/app.py as a state      *)
(* machine.  One script run is the sequence of steps load_model ->         *)
(* upload check -> Image.open -> preprocess_image -> model.predict ->      *)
(* label -> analyze_image_issues -> technical details.  What outlives a    *)
(* script run is the st.cache_resource cache and the upload widget.        *)
(*                                                                         *)
(* Numbers.  Pixels are 8-bit integers.  Floating-point results of the     *)
(* code (variance, mean, score, tensor elements) are kept as exact         *)
(* rationals: a mixed number [whole, num, den] or a numerator over a       *)
(* stated denominator, so that every threshold comparison of the code is   *)
(* decided exactly.                                                        *)
(*                                                                         *)
(* Libraries.  image.resize uses the library's default resampling filter,  *)
(* which depends on the Pillow version (nearest-neighbour before 7.0,      *)
(* bicubic since); the model samples nearest-neighbour.  Every filter      *)
(* writes 8-bit samples of the requested size.  cv2.cvtColor,              *)
(* cv2.Laplacian and st.cache_resource follow their documentation:         *)
(* cvtColor rejects an input that has not 3 or 4 channels, Laplacian       *)
(* reflects the border (BORDER_REFLECT_101), the cache stores a value only *)
(* when the function returns one.  The artifact on disk does not change    *)
(* while the process runs, and one browser session is modelled.            *)
(***************************************************************************)
EXTENDS Integers, Sequences, FiniteSets, TLC

\* ------------------------------------------------------------------ bounds
\* Side of the largest uniform test image.
MaxDim == 3
\* Side, in pixels, of the largest checkerboard cell.
MaxCell == 2
\* Largest number of checkerboard cells along one axis.
MaxCells == 3
\* Largest number of pixels of a free-form (arbitrary content) image.
FreePixels == 4
\* Largest number of pixels of the small images given to preprocess_image.
SmallPixels == 2
\* Classifier scores are the multiples of 1/(2*ScoreHalf) in [0,1].
ScoreHalf == 2
\* Script runs that fail in load_model before the model stops counting them.
MaxFailedLoads == 2

\* ------------------------------------------------------- program constants
TargetSize == 224
BlurThreshold == 100
DarkThreshold == 70
MaxVal == 255

ScoreDen == 2 * ScoreHalf
Scores == 0..ScoreDen

\* --------------------------------------------------------------- utilities
\* The sum of xs[lo..hi], by halves.
RECURSIVE SumRange(_, _, _)
SumRange(xs, lo, hi) ==
    IF lo > hi THEN 0
    ELSE IF lo = hi THEN xs[lo]
    ELSE LET mid == (lo + hi) \div 2
         IN  SumRange(xs, lo, mid) + SumRange(xs, mid + 1, hi)

SumSeq(xs) == SumRange(xs, 1, Len(xs))

SumSq(xs) == SumRange([i \in 1..Len(xs) |-> xs[i] * xs[i]], 1, Len(xs))

\* The elements of a matrix, row after row.
Flatten(rows) ==
    LET w == Len(rows[1])
    IN  [i \in 1..(Len(rows) * w) |-> rows[((i - 1) \div w) + 1][((i - 1) % w) + 1]]

\* ------------------------------------------------------------- PIL images
\* A decoded image: its mode, its size (width, height) and its raster, a
\* sequence of rows of pixels, each pixel the tuple of its bands.  An image
\* produced by resize keeps the raster it was sampled from; GetPixel does
\* the sampling.
Bands(mode) == CASE mode = "L" -> 1 [] mode = "RGB" -> 3 [] mode = "RGBA" -> 4

MkImage(mode, rows) ==
    [mode |-> mode, size |-> <<Len(rows[1]), Len(rows)>>, raster |-> rows]

\* Nearest-neighbour source index of output index i (0-based) when n source
\* samples are stretched over m outputs: floor((i + 1/2) * n / m).
NearestIndex(i, n, m) == ((2 * i + 1) * n) \div (2 * m)

GetPixel(im, x, y) ==
    LET sh == Len(im.raster)
        sw == Len(im.raster[1])
    IN  im.raster[NearestIndex(y, sh, im.size[2]) + 1][NearestIndex(x, sw, im.size[1]) + 1]

\* image.convert('RGB'): L replicates its band, RGBA drops alpha.
ConvertPixelRGB(mode, p) ==
    CASE mode = "L" -> <<p[1], p[1], p[1]>>
      [] mode = "RGB" -> p
      [] mode = "RGBA" -> <<p[1], p[2], p[3]>>

convert_RGB(im) ==
    [mode |-> "RGB", size |-> im.size,
     raster |-> [y \in 1..Len(im.raster) |->
                   [x \in 1..Len(im.raster[y]) |-> ConvertPixelRGB(im.mode, im.raster[y][x])]]]

\* image.resize(size): a new image of exactly the requested size.
resize(im, size) == [mode |-> im.mode, size |-> size, raster |-> im.raster]

\* ---------------------------------------------------------- numpy arrays
\* np.array(image): shape (h, w) for a one-band image, (h, w, bands)
\* otherwise; the elements are read through the image.  div is the number the
\* integer elements have been divided by.
np_array(im) ==
    [shape |-> IF Bands(im.mode) = 1 THEN <<im.size[2], im.size[1]>>
               ELSE <<im.size[2], im.size[1], Bands(im.mode)>>,
     im |-> im, div |-> 1]

expand_dims0(a) == [a EXCEPT !.shape = <<1>> \o a.shape]

divide(a, d) == [a EXCEPT !.div = a.div * d]

\* Numerator of the element at row y, column x, channel c (all 0-based).
ElemNum(a, y, x, c) == GetPixel(a.im, x, y)[c + 1]

\* Every element of the array as a fraction of den: the numerators of all
\* index positions of a 4-D array (batch, row, column, channel).
ElemNums(a) ==
    {ElemNum(a, y, x, c) : y \in 0..(a.shape[2] - 1), x \in 0..(a.shape[3] - 1),
                           c \in 0..(a.shape[4] - 1)}

\* The explicit rows of an array made from an image that was not resized: a
\* one-band pixel becomes a scalar, a multi-band pixel stays a tuple.
ArrayRows(a) ==
    [y \in 1..a.shape[1] |->
       [x \in 1..a.shape[2] |->
          IF Len(a.shape) = 2 THEN GetPixel(a.im, x - 1, y - 1)[1]
          ELSE GetPixel(a.im, x - 1, y - 1)]]

\* ------------------------------------------------------------ exact reals
\* numer/den with den > 0 as whole + num/den, 0 <= num < den.
Mixed(numer, den) == [whole |-> numer \div den, num |-> numer % den, den |-> den]

\* x < k for an integer k.
MixedLess(x, k) == x.whole < k

\* Rounding of n/d (n >= 0, d > 0) to the nearest integer, ties to even.
RoundHalfEven(n, d) ==
    LET q == n \div d
        r2 == 2 * (n % d)
    IN  IF r2 > d \/ (r2 = d /\ q % 2 = 1) THEN q + 1 ELSE q

\* f"{x:.2f}": the value in hundredths.
Fix2(x) == 100 * x.whole + RoundHalfEven(100 * x.num, x.den)

\* ----------------------------------------------------------------- OpenCV
\* An OpenCV matrix is [channels, rows]; an element is a scalar when
\* channels = 1 and a tuple otherwise.  A call that raises cv2.error returns
\* CvError in its place.
CvError == [error |-> "cv2.error"]

Mat(a) == [channels |-> IF Len(a.shape) = 2 THEN 1 ELSE a.shape[3], rows |-> ArrayRows(a)]

MapMat(m, channels, F(_)) ==
    [channels |-> channels,
     rows |-> [y \in 1..Len(m.rows) |-> [x \in 1..Len(m.rows[y]) |-> F(m.rows[y][x])]]]

\* cv2.COLOR_RGB2BGR: three or four channels in, three out, red and blue
\* swapped; any other channel count raises.
SwapRB(p) == <<p[3], p[2], p[1]>>

cvtColor_RGB2BGR(m) ==
    IF m.channels \in {3, 4} THEN MapMat(m, 3, SwapRB) ELSE CvError

\* cv2.COLOR_BGR2GRAY on 8-bit data: fixed-point luma 0.114 B + 0.587 G +
\* 0.299 R with 14 fractional bits, rounded; a gray pixel keeps its value.
GrayOfBGR(p) == (p[1] * 1868 + p[2] * 9617 + p[3] * 4899 + 8192) \div 16384

cvtColor_BGR2GRAY(m) ==
    IF m.channels \in {3, 4} THEN MapMat(m, 1, GrayOfBGR) ELSE CvError

\* cv2.BORDER_REFLECT_101 (the default border): index p of an axis of
\* length len, 0-based.
BorderInterpolate(p, len) ==
    IF len = 1 THEN 0
    ELSE IF p < 0 THEN -p
    ELSE IF p >= len THEN 2 * len - 2 - p
    ELSE p

\* The aperture with the centre weight's sign lost: [0 1 0; 1 4 1; 0 1 0].
LaplacianPlusCentre(m) ==
    LET h == Len(m.rows)
        w == Len(m.rows[1])
        g(y, x) == m.rows[BorderInterpolate(y, h) + 1][BorderInterpolate(x, w) + 1]
    IN  [channels |-> 1,
         rows |-> [y \in 1..h |-> [x \in 1..w |->
                     g(y - 2, x - 1) + g(y, x - 1) + g(y - 1, x - 2) + g(y - 1, x)
                     + 4 * g(y - 1, x - 1)]]]

\* The aperture over a zero-padded border (cv2.BORDER_CONSTANT).
LaplacianZeroBorder(m) ==
    LET h == Len(m.rows)
        w == Len(m.rows[1])
        g(y, x) == IF y < 0 \/ y >= h \/ x < 0 \/ x >= w THEN 0 ELSE m.rows[y + 1][x + 1]
    IN  [channels |-> 1,
         rows |-> [y \in 1..h |-> [x \in 1..w |->
                     g(y - 2, x - 1) + g(y, x - 1) + g(y - 1, x - 2) + g(y - 1, x)
                     - 4 * g(y - 1, x - 1)]]]

\* cv2.Laplacian(gray, cv2.CV_64F), ksize = 1: the 3x3 aperture
\* [0 1 0; 1 -4 1; 0 1 0] at every pixel, borders reflected.
Laplacian(m) ==
    LET h == Len(m.rows)
        w == Len(m.rows[1])
        g(y, x) == m.rows[BorderInterpolate(y, h) + 1][BorderInterpolate(x, w) + 1]
    IN  [channels |-> 1,
         rows |-> [y \in 1..h |-> [x \in 1..w |->
                     g(y - 2, x - 1) + g(y, x - 1) + g(y - 1, x - 2) + g(y - 1, x)
                     - 4 * g(y - 1, x - 1)]]]

\* ndarray.var(): the mean of the squared deviations from the mean, over all
\* elements.  With n elements of sum S = n*m + r and sum of squares Q,
\* n^2 * var = n*Q - S^2 = n*(Q - m*(S + r)) - r^2.
Var(m) ==
    LET xs == Flatten(m.rows)
        n == Len(xs)
        S == SumSeq(xs)
        Q == SumSq(xs)
        mq == S \div n
        r == S % n
        T0 == Q - mq * (S + r)
        f == n * (T0 % n) - r * r
    IN  IF f < 0 THEN [whole |-> (T0 \div n) - 1, num |-> f + n * n, den |-> n * n]
        ELSE [whole |-> T0 \div n, num |-> f, den |-> n * n]

\* np.mean(gray)
Mean(m) == LET xs == Flatten(m.rows) IN Mixed(SumSeq(xs), Len(xs))

\* ------------------------------------------------------ src/app.py helpers
\* preprocess_image without the conversion to RGB.
preprocess_image_unconverted(image) ==
    LET image2 == resize(image, <<TargetSize, TargetSize>>)
        image_array == np_array(image2)
        image_array1 == expand_dims0(image_array)
    IN  divide(image_array1, MaxVal)

\* preprocess_image(image): convert, resize, to array, batch axis, scale.
preprocess_image(image) ==
    LET image1 == convert_RGB(image)
        image2 == resize(image1, <<TargetSize, TargetSize>>)
        image_array == np_array(image2)
        image_array1 == expand_dims0(image_array)
    IN  divide(image_array1, MaxVal)

\* The two messages of analyze_image_issues; the metric is the number the
\* f-string prints with two decimals, in hundredths.
BlurIssue(laplacian_var) == [kind |-> "Blur", metric |-> Fix2(laplacian_var)]
DarkIssue(brightness) == [kind |-> "Darkness", metric |-> Fix2(brightness)]

is_blurry(laplacian_var) == MixedLess(laplacian_var, BlurThreshold)
is_dark(brightness) == MixedLess(brightness, DarkThreshold)

\* The two appends in the other order.
CollectIssuesDarkFirst(laplacian_var, brightness) ==
    LET issues0 == <<>>
        issues1 == IF is_dark(brightness)
                   THEN Append(issues0, DarkIssue(brightness)) ELSE issues0
    IN  IF is_blurry(laplacian_var) THEN Append(issues1, BlurIssue(laplacian_var))
        ELSE issues1

\* issues = []; the two appends, in the order of the code.
CollectIssues(laplacian_var, brightness) ==
    LET issues0 == <<>>
        issues1 == IF is_blurry(laplacian_var)
                   THEN Append(issues0, BlurIssue(laplacian_var)) ELSE issues0
    IN  IF is_dark(brightness) THEN Append(issues1, DarkIssue(brightness)) ELSE issues1

\* The grayscale field of analyze_image_issues (lines 37-38), or CvError.
GrayField(image) ==
    LET cv_image == cvtColor_RGB2BGR(Mat(np_array(image)))
    IN  IF cv_image = CvError THEN CvError ELSE cvtColor_BGR2GRAY(cv_image)

\* analyze_image_issues(image): [returned |-> the list of issues], or the
\* error it raises.
analyze_image_issues(image) ==
    LET gray == GrayField(image)
    IN  IF gray = CvError THEN CvError
        ELSE [returned |-> CollectIssues(Var(Laplacian(gray)), Mean(gray))]

\* ------------------------------------------------------------------ scores
\* A score is its numerator over ScoreDen.  score > 0.5, as tested on lines
\* 95, 104 and 113.
ScoreAboveHalf(s) == 2 * s > ScoreDen

\* f"{x:.0%}" of x = n/ScoreDen: the whole percentage printed.
Percent(n) == RoundHalfEven(100 * n, ScoreDen)

\* ------------------------------------------------------------ page elements
\* What a script run has put on the page, in order: [el, text, num].
Element(el, text, num) == [el |-> el, text |-> text, num |-> num]

\* Lines 95-98 with the boundary on the wrong side (score >= 0.5).
ResultElementInclusive(s) ==
    IF 2 * s >= ScoreDen THEN Element("success", "Result: Good Quality", 0)
    ELSE Element("error", "Result: Bad Quality", 0)

\* Lines 95-98.
ResultElement(s) ==
    IF ScoreAboveHalf(s) THEN Element("success", "Result: Good Quality", 0)
    ELSE Element("error", "Result: Bad Quality", 0)

\* Lines 104-107: the confidence that is formatted, as a numerator over
\* ScoreDen, and the sentence written.
Confidence(s) == IF ScoreAboveHalf(s) THEN s ELSE ScoreDen - s

ConfidenceElement(s) ==
    IF ScoreAboveHalf(s)
    THEN Element("write", "confident this image is of good quality", Percent(Confidence(s)))
    ELSE Element("write", "confident this image is of bad quality", Percent(Confidence(s)))

IssueElement(issue) ==
    Element("write",
            IF issue.kind = "Blur" THEN "Potential Blur Detected (Variance)"
            ELSE "Potential Darkness Detected (Brightness)",
            issue.metric)

\* Lines 109-116.
IssueElements(s, list) ==
    IF list # <<>>
    THEN <<Element("write", "Further analysis found these potential issues:", 0)>>
         \o [i \in 1..Len(list) |-> IssueElement(list[i])]
    ELSE IF ScoreAboveHalf(s)
    THEN <<Element("write", "No specific technical issues (blur, darkness) were flagged.", 0)>>
    ELSE <<Element("write", "AI predicts low quality, but specific issues were not strongly detected", 0)>>

\* The analysis gated by the verdict, as the sidebar text (lines 60-65)
\* describes it: run only for an image classified Bad.
HeuristicAnalysisWhenBad(s, im) ==
    IF ScoreAboveHalf(s) THEN [returned |-> <<>>] ELSE analyze_image_issues(im)

\* Line 101: the analysis is called with the image alone, whatever the score.
HeuristicAnalysis(s, im) == analyze_image_issues(im)

\* -------------------------------------------------------------------- state
None == [none |-> TRUE]
Bound(v) == [val |-> v]

VARIABLES
    artifact,        \* image_quality_analyzer.h5 on disk: "ok" or "missing"
    cache,           \* st.cache_resource entry of load_model: None or Bound(handle)
    loads,           \* times tf.keras.models.load_model returned a model
    failedLoads,     \* times it raised (counted up to MaxFailedLoads)
    uploaded_file,   \* the file_uploader widget: None or Bound(file)
    pc,              \* position of the current script run; "done" between runs
    exception,       \* how the last run ended: "none" or the exception raised
    model,           \* script global, line 22
    image,           \* line 79
    processed_image, \* line 89
    score,           \* line 91
    issues,          \* line 101
    page,            \* elements the current run has written
    memo             \* an observer's record of one completed analysis

vars == <<artifact, cache, loads, failedLoads, uploaded_file, pc, exception, model,
          image, processed_image, score, issues, page, memo>>

locals == <<model, image, processed_image, score, issues>>
process == <<artifact, cache, loads, failedLoads>>

\* ------------------------------------------------------------ test images
\* Intensities around the darkness threshold and the two extremes.
Levels == {0, 10, 69, 70, 255}
\* Intensities of free-form images: 65 and 70 differ by the step that puts
\* the Laplacian variance of a two-pixel image exactly on the threshold.
FreeLevels == {65, 70, 255}
Modes == {"L", "RGB", "RGBA"}

Gray(v) == <<v, v, v>>
Colours == {Gray(v) : v \in Levels} \cup {<<255, 0, 0>>, <<0, 0, 255>>}

\* The pixel of colour rgb in an image of the given mode (an L image holds
\* the first band only).
PixelOf(mode, rgb) ==
    CASE mode = "L" -> <<rgb[1]>>
      [] mode = "RGB" -> rgb
      [] mode = "RGBA" -> <<rgb[1], rgb[2], rgb[3], 255>>

Uniform(mode, w, h, rgb) ==
    MkImage(mode, [y \in 1..h |-> [x \in 1..w |-> PixelOf(mode, rgb)]])

\* kx by ky cells of c by c pixels, alternating 0 and 255.
Checkerboard(mode, c, kx, ky, phase) ==
    MkImage(mode, [y \in 1..(ky * c) |-> [x \in 1..(kx * c) |->
        PixelOf(mode, Gray(IF (((x - 1) \div c) + ((y - 1) \div c) + phase) % 2 = 0
                           THEN 0 ELSE 255))]])

FreeForm(mode, w, h) ==
    {MkImage(mode, [y \in 1..h |-> [x \in 1..w |-> PixelOf(mode, Gray(r[y][x]))]]) :
        r \in [1..h -> [1..w -> FreeLevels]]}

UniformImages ==
    {Uniform(mode, w, h, rgb) : mode \in Modes, w \in 1..MaxDim, h \in 1..MaxDim,
                                rgb \in Colours}

CheckerboardImages ==
    {Checkerboard(mode, c, kx, ky, phase) :
        mode \in Modes, c \in 1..MaxCell, kx \in 2..MaxCells, ky \in 2..MaxCells,
        phase \in {0, 1}}

FreeFormImages ==
    UNION {FreeForm(mode, wh[1], wh[2]) :
             mode \in {"RGB"},
             wh \in {d \in (1..FreePixels) \X (1..FreePixels) : d[1] * d[2] <= FreePixels}}

Images == UniformImages \cup CheckerboardImages \cup FreeFormImages

\* One row or one column of w or h pixels whose intensity runs through the
\* whole 8-bit range.
Ramp(mode, w, h) ==
    MkImage(mode, [y \in 1..h |-> [x \in 1..w |->
        PixelOf(mode, <<(37 * (x + y - 2)) % 256, (101 * (x + y)) % 256, (x + y) % 256>>)]])

\* Images as wide or as tall as the target size, and one pixel more.
LargeImages ==
    {Ramp(mode, d, 1) : mode \in Modes, d \in {TargetSize, TargetSize + 1}}
    \cup {Ramp(mode, 1, d) : mode \in Modes, d \in {TargetSize, TargetSize + 1}}

SmallImages == {im \in Images : im.size[1] * im.size[2] <= SmallPixels}

\* An uploaded file is the picture its bytes encode; Image.open decodes it.
File(im) == [data |-> im]
Image_open(file) == file.data

\* ------------------------------------------------------------------ actions
Init ==
    /\ artifact \in {"ok", "missing"}
    /\ cache = None
    /\ loads = 0
    /\ failedLoads = 0
    /\ uploaded_file = None
    /\ pc = "load"
    /\ exception = "none"
    /\ model = None
    /\ image = None
    /\ processed_image = None
    /\ score = None
    /\ issues = None
    /\ page = <<>>
    /\ memo = None

\* A rerun executes the script from the top in a fresh namespace and redraws
\* the page.
StartRun ==
    /\ pc = "done"
    /\ pc' = "load"
    /\ exception' = "none"
    /\ model' = None
    /\ image' = None
    /\ processed_image' = None
    /\ score' = None
    /\ issues' = None
    /\ page' = <<>>
    /\ UNCHANGED <<process, memo>>

\* The user chooses a file in the uploader (line 76).
Upload(im) ==
    /\ StartRun
    /\ uploaded_file' = Bound(File(im))

\* The user removes the file from the uploader.
RemoveUpload ==
    /\ uploaded_file # None
    /\ StartRun
    /\ uploaded_file' = None

\* Any other interaction that reruns the script.
Rerun ==
    /\ StartRun
    /\ UNCHANGED uploaded_file

\* load_model without the decorator: every call misses.
CacheLookupNever(c) == None

\* st.cache_resource: the entry a call of load_model finds.
CacheLookup(c) == c

\* Line 22, the cache holds the model: no load.
LoadModelCached ==
    /\ pc = "load"
    /\ CacheLookup(cache) # None
    /\ model' = Bound(CacheLookup(cache).val)
    /\ pc' = "upload"
    /\ UNCHANGED <<process, uploaded_file, exception, image, processed_image, score,
                   issues, page, memo>>

\* Line 22, the cache is empty and the artifact loads (lines 19-20): the
\* returned model is stored in the cache.
LoadModelFresh ==
    /\ pc = "load"
    /\ CacheLookup(cache) = None
    /\ artifact = "ok"
    /\ loads' = loads + 1
    /\ cache' = Bound([handle |-> loads + 1])
    /\ model' = Bound([handle |-> loads + 1])
    /\ pc' = "upload"
    /\ UNCHANGED <<artifact, failedLoads, uploaded_file, exception, image,
                   processed_image, score, issues, page, memo>>

\* Line 22 wrapped in a try/except that lets the script go on without a model.
LoadModelFailsCaught ==
    /\ pc = "load"
    /\ CacheLookup(cache) = None
    /\ artifact = "missing"
    /\ failedLoads' = IF failedLoads < MaxFailedLoads THEN failedLoads + 1 ELSE failedLoads
    /\ pc' = "upload"
    /\ UNCHANGED <<artifact, cache, loads, uploaded_file, exception, locals, page, memo>>

\* Line 22, the cache is empty and load_model raises: nothing is cached and
\* the script run ends there.
LoadModelFails ==
    /\ pc = "load"
    /\ CacheLookup(cache) = None
    /\ artifact = "missing"
    /\ failedLoads' = IF failedLoads < MaxFailedLoads THEN failedLoads + 1 ELSE failedLoads
    /\ exception' = "load_model"
    /\ page' = Append(page, Element("exception", "load_model", 0))
    /\ pc' = "done"
    /\ UNCHANGED <<artifact, cache, loads, uploaded_file, locals, memo>>

\* Lines 78, 117-118: no file.
NoUpload ==
    /\ pc = "upload"
    /\ uploaded_file = None
    /\ page' = Append(page, Element("info", "Please upload an image to begin the analysis.", 0))
    /\ pc' = "done"
    /\ UNCHANGED <<process, uploaded_file, exception, locals, memo>>

\* Lines 78-84.
OpenImage ==
    /\ pc = "upload"
    /\ uploaded_file # None
    /\ image' = Bound(Image_open(uploaded_file.val))
    /\ page' = Append(page, Element("image", "Your Uploaded Image", 0))
    /\ pc' = "preprocess"
    /\ UNCHANGED <<process, uploaded_file, exception, model, processed_image, score,
                   issues, memo>>

\* preprocess_image working on the caller's object in place.
ImageConvertedInPlace(im) == resize(convert_RGB(im), <<TargetSize, TargetSize>>)

\* The caller's image object after preprocess_image returns: convert and
\* resize build new images, so it is the object that was passed.
ImageAfterPreprocess(im) == im

\* Line 89.
Preprocess ==
    /\ pc = "preprocess"
    /\ processed_image' = Bound(preprocess_image(image.val))
    /\ image' = Bound(ImageAfterPreprocess(image.val))
    /\ pc' = "predict"
    /\ UNCHANGED <<process, uploaded_file, exception, model, score, issues, page, memo>>

\* Lines 90-91: the classifier is opaque, its score is any value in [0,1].
Predict ==
    /\ pc = "predict"
    /\ model # None
    /\ \E s \in Scores : score' = Bound(s)
    /\ pc' = "label"
    /\ UNCHANGED <<process, uploaded_file, exception, model, image, processed_image,
                   issues, page, memo>>

\* Lines 93-98.
ShowResult ==
    /\ pc = "label"
    /\ page' = page \o <<Element("subheader", "Analysis Results:", 0),
                         ResultElement(score.val)>>
    /\ pc' = "analyze"
    /\ UNCHANGED <<process, uploaded_file, exception, locals, memo>>

\* Line 101, analyze_image_issues returns.
AnalyzeReturns ==
    /\ pc = "analyze"
    /\ HeuristicAnalysis(score.val, image.val) # CvError
    /\ issues' = Bound(HeuristicAnalysis(score.val, image.val).returned)
    /\ pc' = "details"
    /\ UNCHANGED <<process, uploaded_file, exception, model, image, processed_image,
                   score, page, memo>>

\* Line 101, analyze_image_issues raises: the script run ends there.
AnalyzeRaises ==
    /\ pc = "analyze"
    /\ HeuristicAnalysis(score.val, image.val) = CvError
    /\ exception' = "cv2.error"
    /\ page' = Append(page, Element("exception", "cv2.error", 0))
    /\ pc' = "done"
    /\ UNCHANGED <<process, uploaded_file, locals, memo>>

\* Lines 103-116.
ShowDetails ==
    /\ pc = "details"
    /\ page' = page \o <<ConfidenceElement(score.val)>>
                    \o IssueElements(score.val, issues.val)
    /\ pc' = "done"
    /\ UNCHANGED <<process, uploaded_file, exception, locals, memo>>

Step ==
    \/ LoadModelCached
    \/ LoadModelFresh
    \/ LoadModelFails
    \/ NoUpload
    \/ OpenImage
    \/ Preprocess
    \/ Predict
    \/ ShowResult
    \/ AnalyzeReturns
    \/ AnalyzeRaises
    \/ ShowDetails
    \/ RemoveUpload
    \/ Rerun

UploadAny == \E im \in Images : Upload(im)

Next == Step \/ UploadAny

Spec == Init /\ [][Next]_vars

\* The script fed small images and images larger than the target size.
UploadSized == \E im \in SmallImages \cup LargeImages : Upload(im)

NextSized == Step \/ UploadSized

SpecSized == Init /\ [][NextSized]_vars

\* An observer notes the outcome of one finished script run.
Remember ==
    /\ pc = "done"
    /\ memo = None
    /\ memo' = Bound([file |-> uploaded_file, score |-> score, issues |-> issues,
                      exception |-> exception, page |-> page, other |-> FALSE])
    /\ UNCHANGED <<process, uploaded_file, pc, exception, locals, page>>

\* The observer notes that a run on another upload has finished since.
NoteOther ==
    /\ pc = "done"
    /\ memo # None
    /\ ~memo.val.other
    /\ uploaded_file # memo.val.file
    /\ memo' = Bound([memo.val EXCEPT !.other = TRUE])
    /\ UNCHANGED <<process, uploaded_file, pc, exception, locals, page>>

\* The images the observer follows: every one-pixel image and the two-pixel
\* rows, among them sharp and blurred, dark and bright ones.
ObservedImages ==
    {im \in Images : im.size = <<1, 1>>} \cup FreeForm("RGB", 2, 1)

UploadObserved == \E im \in ObservedImages : Upload(im)

NextObserved == Step \/ UploadObserved \/ Remember \/ NoteOther

SpecObserved == Init /\ [][NextObserved]_vars

\* ------------------------------------------------------- reading the page
Shows(text) == \E i \in 1..Len(page) : page[i].text = text

\* The elements of the page whose text is in texts, in order.
Shown(texts) == SelectSeq(page, LAMBDA e : e.text \in texts)

GoodText == "Result: Good Quality"
BadText == "Result: Bad Quality"
ConfidentGood == "confident this image is of good quality"
ConfidentBad == "confident this image is of bad quality"
BlurText == "Potential Blur Detected (Variance)"
DarkText == "Potential Darkness Detected (Brightness)"

\* The run has passed lines 95-98 / has written the technical details.
LabelShown == score # None /\ pc \in {"analyze", "details", "done"}
Completed == pc = "done" /\ exception = "none" /\ score # None

\* p is the whole percentage nearest to n/ScoreDen.
NearestPercent(p, n) ==
    LET d == 100 * n - p * ScoreDen
    IN  2 * (IF d < 0 THEN -d ELSE d) <= ScoreDen

Kinds(list) == [i \in 1..Len(list) |-> list[i].kind]

\* ------------------------------------------------------------------ claims
\* C1: for every score s in [0,1], s > 0.5 gives the label Good Quality and
\* the confidence s, s <= 0.5 (0.5 included) gives Bad Quality and the
\* confidence 1 - s; the label and the confidence sentence of one run agree,
\* and the confidence lies in [0.5, 1] (50% to 100% as printed).
C1_LabelAndConfidence ==
    /\ LabelShown =>
         LET s == score.val
         IN  Shown({GoodText, BadText}) =
               <<Element(IF 2 * s > ScoreDen THEN "success" ELSE "error",
                         IF 2 * s > ScoreDen THEN GoodText ELSE BadText, 0)>>
    /\ Completed =>
         LET s == score.val
             conf == IF 2 * s > ScoreDen THEN s ELSE ScoreDen - s
             shown == Shown({ConfidentGood, ConfidentBad})
         IN  /\ Len(shown) = 1
             /\ shown[1].text = (IF 2 * s > ScoreDen THEN ConfidentGood ELSE ConfidentBad)
             /\ (shown[1].text = ConfidentGood) <=> Shows(GoodText)
             /\ (shown[1].text = ConfidentBad) <=> Shows(BadText)
             /\ Confidence(s) = conf
             /\ 2 * conf >= ScoreDen /\ conf <= ScoreDen
             /\ NearestPercent(shown[1].num, conf)
             /\ shown[1].num \in 50..100

\* C1 witness: a completed run whose score is exactly 0.5 shows Bad Quality.
C1_Witness == Completed /\ 2 * score.val = ScoreDen /\ Shows(BadText) /\ Shows(ConfidentBad)

\* C2: whenever analyze_image_issues returns, with v the Laplacian variance
\* and m the mean of the grayscale field, the result is exactly
\* [Blur if v < 100] followed by [Darkness if m < 70]: at most one issue of
\* each kind, Blur first, empty when neither is flagged, each carrying its
\* measured value.
C2_IssueSequence ==
    issues # None =>
        LET gray == GrayField(image.val)
            v == Var(Laplacian(gray))
            m == Mean(gray)
            blur == v.whole < BlurThreshold
            dark == m.whole < DarkThreshold
        IN  /\ v.num >= 0 /\ v.num < v.den /\ m.num >= 0 /\ m.num < m.den
            /\ issues.val =
                 (IF blur THEN <<[kind |-> "Blur", metric |-> Fix2(v)]>> ELSE <<>>)
                 \o (IF dark THEN <<[kind |-> "Darkness", metric |-> Fix2(m)]>> ELSE <<>>)
            /\ Len(issues.val) <= 2
            /\ \A i, j \in 1..Len(issues.val) :
                 i # j => issues.val[i].kind # issues.val[j].kind

\* C2 witness: both checks flag, Blur before Darkness.
C2_Witness == issues # None /\ Kinds(issues.val) = <<"Blur", "Darkness">>

C4_LoadedOnce ==
    /\ loads <= 1
    /\ (artifact = "ok" /\ pc # "load") => loads = 1
    /\ cache # None => loads = 1 /\ cache = Bound([handle |-> 1])
    /\ model # None => model = cache
    /\ score # None => model # None /\ model = cache

\* C4 witness: an inference in a run after the one that loaded the model (the
\* first run of a session has no upload).
C4_Witness == score # None /\ image # None /\ loads = 1 /\ model = cache

\* C6 as stated: in a process whose model load failed the load is not
\* retried on later requests, and no upload is ever analysed.
C6_NoRetry ==
    artifact = "missing" =>
        /\ failedLoads <= 1
        /\ score = None /\ issues = None /\ processed_image = None

\* C6, amended: while the artifact is missing or incompatible every script
\* run raises in load_model (the failure is not cached, so each rerun
\* attempts the load again) and ends there: nothing is cached, no image is
\* opened, no inference is made, no verdict and no heuristic result is
\* produced, and the page holds the exception alone.
C6_LoadFailureStopsEveryRun ==
    artifact = "missing" =>
        /\ cache = None /\ loads = 0 /\ model = None
        /\ image = None /\ processed_image = None /\ score = None /\ issues = None
        /\ pc \in {"load", "done"}
        /\ pc = "load" => page = <<>>
        /\ pc = "done" =>
             /\ exception = "load_model"
             /\ failedLoads >= 1
             /\ page = <<Element("exception", "load_model", 0)>>

\* C6 witness: with an image in the uploader, a second run has failed in
\* load_model again.
C6_Witness ==
    artifact = "missing" /\ uploaded_file # None /\ failedLoads >= 2 /\ pc = "done"

\* C7: once the model is loaded no script run raises, and for every decoded
\* image, single-channel ones included, analyze_image_issues returns a list.
C7_AnalysisNeverFails ==
    /\ cache # None => exception = "none"
    /\ (pc = "done" /\ image # None) => issues # None

\* An image all of whose pixels are equal.
IsUniform(im) ==
    \A y \in 1..Len(im.raster) : \A x \in 1..Len(im.raster[y]) :
        im.raster[y][x] = im.raster[1][1]

AllZero(m) == \A y \in 1..Len(m.rows) : \A x \in 1..Len(m.rows[y]) : m.rows[y][x] = 0

\* C8: for a uniform image of intensity v, of any size, the Laplacian is
\* zero at every pixel, borders included, so the variance is 0 and Blur is
\* flagged; Darkness is flagged exactly when v < 70 (fill 10: Blur and
\* Darkness; fill 255: Blur alone).
C8_UniformImage ==
    (issues # None /\ IsUniform(image.val)) =>
        LET gray == GrayField(image.val)
            v == gray.rows[1][1]
            lap == Laplacian(gray)
        IN  /\ \A y \in 1..Len(gray.rows) : \A x \in 1..Len(gray.rows[y]) :
                  gray.rows[y][x] = v
            /\ AllZero(lap)
            /\ Var(lap).whole = 0 /\ Var(lap).num = 0
            /\ Kinds(issues.val) =
                 <<"Blur">> \o (IF v < 70 THEN <<"Darkness">> ELSE <<>>)
            /\ v = 10 => Kinds(issues.val) = <<"Blur", "Darkness">>
            /\ v = 255 => Kinds(issues.val) = <<"Blur">>

\* C8 witness: a flat image of more than one row and column, of intensity
\* 70 exactly, is flagged Blur and not Darkness.
C8_Witness ==
    /\ issues # None /\ IsUniform(image.val)
    /\ image.val.size[1] >= 2 /\ image.val.size[2] >= 2
    /\ GrayField(image.val).rows[1][1] = 70
    /\ Kinds(issues.val) = <<"Blur">>

\* The side of the cells of a checkerboard of 0 and 255 with at least two
\* cells along each axis, if the image is one: the set of such sides.
CheckerSides(im) ==
    LET w == im.size[1]
        h == im.size[2]
        IsBoard(c, phase) ==
            /\ w % c = 0 /\ h % c = 0 /\ w \div c >= 2 /\ h \div c >= 2
            /\ \A y \in 1..h : \A x \in 1..w :
                 ConvertPixelRGB(im.mode, im.raster[y][x]) =
                   Gray(IF (((x - 1) \div c) + ((y - 1) \div c) + phase) % 2 = 0
                        THEN 0 ELSE 255)
    IN  {c \in 1..w : \E phase \in {0, 1} : IsBoard(c, phase)}

C5_TensorShapeAndRange ==
    /\ processed_image # None =>
         /\ processed_image.val.shape = <<1, 224, 224, 3>>
         /\ processed_image.val.div = 255
    /\ pc = "predict" =>
         \A n \in ElemNums(processed_image.val) :
            /\ n \in 0..255
            /\ 0 <= n /\ n <= processed_image.val.div

\* C5 witness: a single-channel image wider than the target has been
\* preprocessed, and the array holds both a 0 and a 1.
C5_Witness ==
    /\ pc = "predict"
    /\ image.val.mode = "L" /\ image.val.size[1] > TargetSize
    /\ processed_image.val.shape = <<1, 224, 224, 3>>
    /\ {0, 255} \subseteq ElemNums(processed_image.val)

====
